---- MODULE Spec2Model ----
(***************************************************************************)
(* The lineup container of the LOVB team builder (TeamProvider), the save  *)
(* gate of the team-builder screen, the selection handler of the player    *)
(* list and the sign-in / sign-out handlers that drive it, as a state      *)
(* machine.                                                                *)
(*                                                                         *)
(* lineup, saving and user are the React state the container holds;        *)
(* selectedPlayer is the state of the player-list screen.  loadReqs and    *)
(* saveReqs are the fetch calls in flight.  alert, request, rejected,      *)
(* logged and nav record what the last step did towards the outside: the   *)
(* Alert.alert call it made, the fetch call it issued, the error with      *)
(* which the handler or the asynchronous operation it completed ended,     *)
(* what it wrote with console.error, and the router call it made.  op      *)
(* names the handler or continuation the last step ran.                    *)
(***************************************************************************)
EXTENDS Integers, Sequences, FiniteSets, TLC

VARIABLES lineup, saving, user, selectedPlayer, loadReqs, saveReqs,
          alert, request, rejected, logged, nav, op

vars ==
  <<lineup, saving, user, selectedPlayer, loadReqs, saveReqs,
    alert, request, rejected, logged, nav, op>>

(***************************************************************************)
(* Bounds of the model.                                                    *)
(***************************************************************************)
\* load requests that may be in flight at once
MaxLoads == 1
\* save requests that may be in flight at once
MaxSaves == 2

(***************************************************************************)
(* Data.                                                                   *)
(***************************************************************************)
\* JavaScript null: no player in a slot, no signed-in user
null == [id |-> "null"]

\* Player records as the roster endpoint returns them; the display
\* attributes play no part in the lineup logic.
Roster ==
  { [id |-> "p10", creditCost |-> 10],
    [id |-> "p20", creditCost |-> 20],
    [id |-> "p30", creditCost |-> 30] }

\* the identities that can sign in
Users == { [id |-> "u1", token |-> "t1"] }

\* the six position keys, in the order calculateCredits visits them
positions ==
  << "setter", "outsideHitter", "oppositeHitter",
     "middleBlocker", "libero", "defensiveSpecialist" >>

\* the position table of the team-builder screen
POSITIONS ==
  << [key |-> "setter", abbr |-> "S"],
     [key |-> "outsideHitter", abbr |-> "OH"],
     [key |-> "oppositeHitter", abbr |-> "OPP"],
     [key |-> "middleBlocker", abbr |-> "MB"],
     [key |-> "libero", abbr |-> "L"],
     [key |-> "defensiveSpecialist", abbr |-> "DS"] >>

PositionKey == { POSITIONS[i].key : i \in 1..Len(POSITIONS) }

\* the state useState<Lineup> starts with
emptyLineup ==
  [ setter |-> null, outsideHitter |-> null, oppositeHitter |-> null,
    middleBlocker |-> null, libero |-> null, defensiveSpecialist |-> null,
    creditsUsed |-> 0, remaining |-> 100 ]

(***************************************************************************)
(* What a step shows, sends or throws.                                     *)
(***************************************************************************)
NoAlert == [title |-> "", message |-> "", credits |-> 0]

NoRequest == [method |-> "", path |-> ""]

NoError == [message |-> ""]

NoLog == ""

NoNav == [call |-> "", path |-> ""]

\* router.back()
Back == [call |-> "back", path |-> ""]

\* router.replace(path)
Replace(path) == [call |-> "replace", path |-> path]

\* Math.abs
Abs(n) == IF n < 0 THEN 0 - n ELSE n

BudgetExceededAlert(n) ==
  [title |-> "Budget Exceeded", message |-> "You're over budget by", credits |-> n]

IncompleteAlert ==
  [title |-> "Incomplete Lineup",
   message |-> "Please fill all 6 positions before saving.", credits |-> 0]

SuccessAlert ==
  [title |-> "Success", message |-> "Your lineup has been saved!", credits |-> 0]

ErrorAlert(message) == [title |-> "Error", message |-> message, credits |-> 0]

\* a || b on strings: the empty string is falsy
OrString(a, b) == IF a = "" THEN b ELSE a

\* a || b on numbers: 0 is falsy
OrNumber(a, b) == IF a = 0 THEN b ELSE a

(***************************************************************************)
(* TeamProvider: credits.                                                  *)
(***************************************************************************)
\* player && typeof player === 'object' && 'creditCost' in player
hasCreditCost(player) == player # null /\ "creditCost" \in DOMAIN player

\* the forEach of calculateCredits from the i-th position on
RECURSIVE totalFrom(_, _)
totalFrom(newLineup, i) ==
  IF i > Len(positions) THEN 0
  ELSE LET player == newLineup[positions[i]]
       IN (IF hasCreditCost(player) THEN player.creditCost ELSE 0)
          + totalFrom(newLineup, i + 1)

\* calculateCredits with the last position left out of its list
calculateCreditsFivePositions(newLineup) ==
  LET total == totalFrom(newLineup, 1)
               - totalFrom(newLineup, Len(positions))
  IN [creditsUsed |-> total, remaining |-> 100 - total]

calculateCredits(newLineup) ==
  LET total == totalFrom(newLineup, 1)
  IN [creditsUsed |-> total, remaining |-> 100 - total]

\* assignedLineup that keeps the lineup when the result would be over budget
assignedLineupWithinBudget(l, position, player) ==
  LET newLineup == [l EXCEPT ![position] = player]
      credits == calculateCredits(newLineup)
  IN IF credits.remaining < 0
       THEN l
       ELSE [newLineup EXCEPT !.creditsUsed = credits.creditsUsed,
                              !.remaining = credits.remaining]

\* the value setPlayerToPosition hands to setLineup
assignedLineup(l, position, player) ==
  LET newLineup == [l EXCEPT ![position] = player]
      credits == calculateCredits(newLineup)
  IN [newLineup EXCEPT !.creditsUsed = credits.creditsUsed,
                       !.remaining = credits.remaining]

setPlayerToPosition(position, player) ==
  /\ lineup' = assignedLineup(lineup, position, player)
  /\ alert' = NoAlert
  /\ request' = NoRequest
  /\ rejected' = NoError
  /\ logged' = NoLog
  /\ nav' = NoNav
  /\ op' = "setPlayerToPosition"
  /\ UNCHANGED <<saving, user, loadReqs, saveReqs, selectedPlayer>>

(***************************************************************************)
(* The lineup endpoint.                                                    *)
(***************************************************************************)
\* a saved lineup as GET /api/lineup reports it: the six slots resolved to
\* player records, with the credits the server derives from them
serverLineup(s, oh, opp, mb, l, ds) ==
  LET cost(p) == IF p = null THEN 0 ELSE p.creditCost
      used == cost(s) + cost(oh) + cost(opp) + cost(mb) + cost(l) + cost(ds)
  IN [ setter |-> s, outsideHitter |-> oh, oppositeHitter |-> opp,
       middleBlocker |-> mb, libero |-> l, defensiveSpecialist |-> ds,
       creditsUsed |-> used, remaining |-> 100 - used ]

\* what the server can hold for a user: nothing saved yet, or a lineup that
\* passed the save gate (six players within the budget)
ServerLineups ==
  { serverLineup(null, null, null, null, null, null) } \cup
  { d \in { serverLineup(s, oh, opp, mb, l, ds) :
              s \in Roster, oh \in Roster, opp \in Roster,
              mb \in Roster, l \in Roster, ds \in Roster } :
      d.remaining >= 0 }

LoadResponses ==
  { [ok |-> TRUE, data |-> d] : d \in ServerLineups } \cup
  { [ok |-> FALSE, data |-> null] }

\* the detail field of the error payload of POST /api/lineup/save; "" stands
\* for a payload without one
SaveResponses ==
  { [ok |-> TRUE, detail |-> ""],
    [ok |-> FALSE, detail |-> "Lineup exceeds credit budget"],
    [ok |-> FALSE, detail |-> ""] }

\* error.message of a fetch that rejects
NetworkErrors == { "Network request failed", "" }

(***************************************************************************)
(* TeamProvider: load.                                                     *)
(***************************************************************************)
\* loadedLineup with the two defaults exchanged
loadedLineupSwappedDefaults(data) ==
  [ setter |-> data.setter,
    outsideHitter |-> data.outsideHitter,
    oppositeHitter |-> data.oppositeHitter,
    middleBlocker |-> data.middleBlocker,
    libero |-> data.libero,
    defensiveSpecialist |-> data.defensiveSpecialist,
    creditsUsed |-> OrNumber(data.creditsUsed, 100),
    remaining |-> OrNumber(data.remaining, 0) ]

\* the value loadLineup hands to setLineup on an ok response
loadedLineup(data) ==
  [ setter |-> data.setter,
    outsideHitter |-> data.outsideHitter,
    oppositeHitter |-> data.oppositeHitter,
    middleBlocker |-> data.middleBlocker,
    libero |-> data.libero,
    defensiveSpecialist |-> data.defensiveSpecialist,
    creditsUsed |-> OrNumber(data.creditsUsed, 0),
    remaining |-> OrNumber(data.remaining, 100) ]

\* loadLineup up to its await: the fetch is issued unless no user is signed in
loadLineup(u) ==
  IF u = null
    THEN /\ request' = NoRequest
         /\ UNCHANGED loadReqs
    ELSE /\ loadReqs < MaxLoads
         /\ loadReqs' = loadReqs + 1
         /\ request' = [method |-> "GET", path |-> "/api/lineup", token |-> u.token]

\* loadResponse with an else branch that resets the lineup
loadResponseClearsOnFailure(response) ==
  /\ loadReqs > 0
  /\ loadReqs' = loadReqs - 1
  /\ lineup' = IF response.ok THEN loadedLineup(response.data) ELSE emptyLineup
  /\ alert' = NoAlert
  /\ request' = NoRequest
  /\ rejected' = NoError
  /\ logged' = NoLog
  /\ nav' = NoNav
  /\ op' = IF response.ok THEN "loadLineup:ok" ELSE "loadLineup:notOk"
  /\ UNCHANGED <<saving, user, saveReqs, selectedPlayer>>

\* loadLineup after its await, the fetch having resolved with a response
loadResponse(response) ==
  /\ loadReqs > 0
  /\ loadReqs' = loadReqs - 1
  /\ lineup' = IF response.ok THEN loadedLineup(response.data) ELSE lineup
  /\ alert' = NoAlert
  /\ request' = NoRequest
  /\ rejected' = NoError
  /\ logged' = NoLog
  /\ nav' = NoNav
  /\ op' = IF response.ok THEN "loadLineup:ok" ELSE "loadLineup:notOk"
  /\ UNCHANGED <<saving, user, saveReqs, selectedPlayer>>

\* loadLineup after its await, the fetch having rejected: caught and logged
loadNetworkError ==
  /\ loadReqs > 0
  /\ loadReqs' = loadReqs - 1
  /\ alert' = NoAlert
  /\ request' = NoRequest
  /\ rejected' = NoError
  /\ logged' = "Failed to load lineup:"
  /\ nav' = NoNav
  /\ op' = "loadLineup:error"
  /\ UNCHANGED <<lineup, saving, user, saveReqs, selectedPlayer>>

(***************************************************************************)
(* Sign-up and sign-out; the effect of TeamProvider runs when user changes. *)
(***************************************************************************)
\* AuthContext.signUp on success
signUp(u) == user' = u

\* AuthContext.signOut
signOut == user' = null

\* userEffect that never loads
userEffectWithoutLoad(u) ==
  /\ request' = NoRequest
  /\ UNCHANGED loadReqs

\* useEffect(() => { if (user) loadLineup(); }, [user])
userEffect(u) ==
  IF u # null
    THEN loadLineup(u)
    ELSE /\ request' = NoRequest
         /\ UNCHANGED loadReqs

handleSignUp(name, email, password, u, failure) ==
  /\ user = null
  /\ IF name = "" \/ email = "" \/ password = ""
       THEN /\ alert' = ErrorAlert("Please fill in all fields")
            /\ request' = NoRequest
            /\ nav' = NoNav
            /\ UNCHANGED <<user, loadReqs>>
       ELSE IF Len(password) < 6
       THEN /\ alert' = ErrorAlert("Password must be at least 6 characters")
            /\ request' = NoRequest
            /\ nav' = NoNav
            /\ UNCHANGED <<user, loadReqs>>
       ELSE IF failure # ""
       THEN /\ alert' = [title |-> "Sign Up Failed", message |-> failure, credits |-> 0]
            /\ request' = NoRequest
            /\ nav' = NoNav
            /\ UNCHANGED <<user, loadReqs>>
       ELSE /\ signUp(u)
            /\ userEffect(u)
            /\ alert' = NoAlert
            /\ nav' = Replace("/home")
  /\ rejected' = NoError
  /\ logged' = NoLog
  /\ op' = "handleSignUp"
  /\ UNCHANGED <<lineup, saving, saveReqs, selectedPlayer>>

handleSignOut ==
  /\ user # null
  /\ signOut
  /\ userEffect(null)
  /\ alert' = NoAlert
  /\ nav' = Replace("/auth/signin")
  /\ rejected' = NoError
  /\ logged' = NoLog
  /\ op' = "handleSignOut"
  /\ UNCHANGED <<lineup, saving, saveReqs, selectedPlayer>>

(***************************************************************************)
(* The save gate of the team-builder screen and TeamProvider's save.       *)
(***************************************************************************)
\* allFilled with some in place of every
someFilled(l) == \E i \in 1..Len(POSITIONS) : l[POSITIONS[i].key] # null

allFilled(l) == \A i \in 1..Len(POSITIONS) : l[POSITIONS[i].key] # null

\* withinBudget with > in place of >=
withinBudgetStrict(l) == l.remaining > 0

withinBudget(l) == l.remaining >= 0

\* canSave without the budget test
canSaveAnyBudget(l) == allFilled(l)

canSave(l) == allFilled(l) /\ withinBudget(l)

\* saveBody with the libero's id in the defensive specialist's field
saveBodyLiberoTwice(l) ==
  LET idOrNull(p) == IF p = null THEN "null" ELSE OrString(p.id, "null")
  IN [ setter |-> idOrNull(l.setter),
       outsideHitter |-> idOrNull(l.outsideHitter),
       oppositeHitter |-> idOrNull(l.oppositeHitter),
       middleBlocker |-> idOrNull(l.middleBlocker),
       libero |-> idOrNull(l.libero),
       defensiveSpecialist |-> idOrNull(l.libero) ]

\* lineup.setter?.id || null, and so on for the six keys
saveBody(l) ==
  LET idOrNull(p) == IF p = null THEN "null" ELSE OrString(p.id, "null")
  IN [ setter |-> idOrNull(l.setter),
       outsideHitter |-> idOrNull(l.outsideHitter),
       oppositeHitter |-> idOrNull(l.oppositeHitter),
       middleBlocker |-> idOrNull(l.middleBlocker),
       libero |-> idOrNull(l.libero),
       defensiveSpecialist |-> idOrNull(l.defensiveSpecialist) ]

\* rejectionAlert with <= in place of <
rejectionAlertAtZero(l) ==
  IF l.remaining <= 0
    THEN BudgetExceededAlert(Abs(l.remaining))
    ELSE IncompleteAlert

\* rejectionAlert with the empty slot tested before the budget
rejectionAlertIncompleteFirst(l) ==
  IF ~allFilled(l)
    THEN IncompleteAlert
    ELSE BudgetExceededAlert(Abs(l.remaining))

\* the alert handleSave shows when the gate fails
rejectionAlert(l) ==
  IF l.remaining < 0
    THEN BudgetExceededAlert(Abs(l.remaining))
    ELSE IncompleteAlert

\* saveLineup without the return for a missing user
saveLineupWithoutUserCheck ==
  /\ Cardinality(saveReqs) < MaxSaves
  /\ saving' = TRUE
  /\ \E id \in (1..MaxSaves) \ saveReqs :
       /\ \A other \in (1..MaxSaves) \ saveReqs : id <= other
       /\ saveReqs' = saveReqs \cup {id}
  /\ request' = [ method |-> "POST", path |-> "/api/lineup/save",
                  token |-> IF user = null THEN "" ELSE user.token,
                  body |-> saveBody(lineup) ]
  /\ alert' = NoAlert

\* saveLineup that returns when a save is already in flight
saveLineupExclusive ==
  IF user = null \/ saving
    THEN /\ alert' = SuccessAlert
         /\ request' = NoRequest
         /\ UNCHANGED <<saving, saveReqs>>
    ELSE /\ Cardinality(saveReqs) < MaxSaves
         /\ saving' = TRUE
         /\ \E id \in (1..MaxSaves) \ saveReqs :
              /\ \A other \in (1..MaxSaves) \ saveReqs : id <= other
              /\ saveReqs' = saveReqs \cup {id}
         /\ request' = [ method |-> "POST", path |-> "/api/lineup/save",
                         token |-> user.token, body |-> saveBody(lineup) ]
         /\ alert' = NoAlert

\* saveLineup up to its await
saveLineup ==
  IF user = null
    THEN \* returns at once; handleSave goes on to its success alert
         /\ alert' = SuccessAlert
         /\ request' = NoRequest
         /\ UNCHANGED <<saving, saveReqs>>
    ELSE /\ Cardinality(saveReqs) < MaxSaves
         /\ saving' = TRUE
         /\ \E id \in (1..MaxSaves) \ saveReqs :
              /\ \A other \in (1..MaxSaves) \ saveReqs : id <= other
              /\ saveReqs' = saveReqs \cup {id}
         /\ request' = [ method |-> "POST", path |-> "/api/lineup/save",
                         token |-> user.token, body |-> saveBody(lineup) ]
         /\ alert' = NoAlert

\* handleSave up to the await of saveLineup
handleSave ==
  /\ IF ~canSave(lineup)
       THEN /\ alert' = rejectionAlert(lineup)
            /\ request' = NoRequest
            /\ UNCHANGED <<saving, saveReqs>>
       ELSE saveLineup
  /\ rejected' = NoError
  /\ logged' = NoLog
  /\ nav' = NoNav
  /\ op' = "handleSave"
  /\ UNCHANGED <<lineup, user, loadReqs, selectedPlayer>>

\* the message saveLineup throws on a response that is not ok
saveFailure(response) == OrString(response.detail, "Failed to save lineup")

\* saveLineup after its await with a response, then the rest of handleSave
saveResponse(id, response) ==
  /\ id \in saveReqs
  /\ saveReqs' = saveReqs \ {id}
  /\ saving' = FALSE
  /\ IF response.ok
       THEN /\ rejected' = NoError
            /\ alert' = SuccessAlert
       ELSE /\ rejected' = [message |-> saveFailure(response)]
            /\ alert' = ErrorAlert(OrString(saveFailure(response), "Failed to save lineup"))
  /\ request' = NoRequest
  /\ logged' = NoLog
  /\ nav' = NoNav
  /\ op' = IF response.ok THEN "saveLineup:ok" ELSE "saveLineup:notOk"
  /\ UNCHANGED <<lineup, user, loadReqs, selectedPlayer>>

\* saveLineup after its await with the fetch rejected, then the rest of handleSave
saveNetworkError(id, message) ==
  /\ id \in saveReqs
  /\ saveReqs' = saveReqs \ {id}
  /\ saving' = FALSE
  /\ rejected' = [message |-> message]
  /\ alert' = ErrorAlert(OrString(message, "Failed to save lineup"))
  /\ request' = NoRequest
  /\ logged' = NoLog
  /\ nav' = NoNav
  /\ op' = "saveLineup:error"
  /\ UNCHANGED <<lineup, user, loadReqs, selectedPlayer>>

\* the disabled prop of the save button without the saving flag
saveButtonDisabledByGateOnly == ~canSave(lineup)

\* disabled={!canSave() || saving}
saveButtonDisabled == ~canSave(lineup) \/ saving

\* a press of the save button: onPress={handleSave}, unless disabled
pressSave ==
  /\ ~saveButtonDisabled
  /\ handleSave

\* loadLineup called through the context, outside the effect
loadLineupFromContext ==
  /\ loadLineup(user)
  /\ alert' = NoAlert
  /\ rejected' = NoError
  /\ logged' = NoLog
  /\ nav' = NoNav
  /\ op' = "loadLineup"
  /\ UNCHANGED <<lineup, saving, user, saveReqs, selectedPlayer>>

(***************************************************************************)
(* The player list: selecting a player, for a position or for its profile. *)
(***************************************************************************)
\* the names the player-list module binds from react-native
playerListImports ==
  { "View", "Text", "TouchableOpacity", "StyleSheet", "SafeAreaView",
    "FlatList", "TextInput", "Image", "ActivityIndicator", "Modal" }

\* the position parameter of the route: a position key, or "" when the list
\* was opened without one
RouteParams == PositionKey \cup {""}

\* the cost handleSelectPlayer gets back from the player now in the slot
currentCost(l, position) ==
  IF hasCreditCost(l[position]) THEN l[position].creditCost ELSE 0

\* newTotal without the cost of the current occupant taken off
newTotalWithoutRefund(l, position, player) ==
  l.creditsUsed + player.creditCost

newTotal(l, position, player) ==
  l.creditsUsed - currentCost(l, position) + player.creditCost

availableCredits(l, position) == 100 - (l.creditsUsed - currentCost(l, position))

\* exceedsBudget with the limit at 110
exceedsBudgetAbove110(total) == total > 110

\* the test of the preview on the hypothetical total
exceedsBudget(total) == total > 100

\* the alert the preview asks for
PreviewAlert(player, available) ==
  [ title |-> "Budget Exceeded",
    message |-> "You don't have enough credits to select this player.",
    playerCost |-> player.creditCost,
    availableCredits |-> available ]

\* evaluating an identifier that no import or declaration binds
ReferenceError(name) == [message |-> name \o " is not defined"]

handleSelectPlayer(position, player) ==
  /\ IF position # ""
       THEN IF exceedsBudget(newTotal(lineup, position, player))
              THEN /\ IF "Alert" \in playerListImports
                        THEN /\ alert' = PreviewAlert(player, availableCredits(lineup, position))
                             /\ rejected' = NoError
                        ELSE /\ alert' = NoAlert
                             /\ rejected' = ReferenceError("Alert")
                   /\ nav' = NoNav
                   /\ UNCHANGED <<lineup, selectedPlayer>>
              ELSE /\ lineup' = assignedLineup(lineup, position, player)
                   /\ nav' = Back
                   /\ alert' = NoAlert
                   /\ rejected' = NoError
                   /\ UNCHANGED selectedPlayer
       ELSE /\ selectedPlayer' = player
            /\ alert' = NoAlert
            /\ rejected' = NoError
            /\ nav' = NoNav
            /\ UNCHANGED lineup
  /\ request' = NoRequest
  /\ logged' = NoLog
  /\ op' = "handleSelectPlayer"
  /\ UNCHANGED <<saving, user, loadReqs, saveReqs>>

\* the position each player of the roster plays, as the list shows it
playerPosition(player) ==
  IF player.id = "p10" THEN "S"
  ELSE IF player.id = "p20" THEN "OH"
  ELSE "L"

\* the values filterPosition takes: the route parameter it starts with, "" for
\* All, and the abbreviations of the filter buttons
Filters == RouteParams \cup {"S", "OH", "OPP", "MB", "L", "DS"}

\* posMap[filterPosition] || filterPosition
filterAbbr(filterPosition) ==
  IF \E i \in 1..Len(POSITIONS) : POSITIONS[i].key = filterPosition
    THEN (CHOOSE pos \in {POSITIONS[i] : i \in 1..Len(POSITIONS)} :
            pos.key = filterPosition).abbr
    ELSE filterPosition

\* the players applyFilters leaves in the list, the search box being empty
filteredPlayers(filterPosition) ==
  IF filterPosition # ""
    THEN {p \in Roster : playerPosition(p) = filterAbbr(filterPosition)}
    ELSE Roster

\* Object.values(lineup).some(p => ... p.id === item.id)
isSelected(l, item) ==
  \E position \in PositionKey : l[position] # null /\ l[position].id = item.id

\* playerDisabled without the test of the route parameter
playerDisabledWhenSelected(l, position, item) == isSelected(l, item)

\* disabled={isSelected && !params.position}
playerDisabled(l, position, item) == isSelected(l, item) /\ position = ""

\* a press on a player of the list: onPress={() => handleSelectPlayer(item)},
\* unless disabled
pressPlayer(position, filterPosition, player) ==
  /\ player \in filteredPlayers(filterPosition)
  /\ ~playerDisabled(lineup, position, player)
  /\ handleSelectPlayer(position, player)

\* the close button of the profile modal
closeProfile ==
  /\ selectedPlayer # null
  /\ selectedPlayer' = null
  /\ alert' = NoAlert
  /\ request' = NoRequest
  /\ rejected' = NoError
  /\ logged' = NoLog
  /\ nav' = NoNav
  /\ op' = "closeProfile"
  /\ UNCHANGED <<lineup, saving, user, loadReqs, saveReqs>>

(***************************************************************************)
(* The state machine.                                                      *)
(***************************************************************************)
Names == { "", "Ann" }

Emails == { "", "ann@lovb.test" }

Passwords == { "", "12345", "123456" }

SignUpFailures == { "", "Email already registered" }

Init ==
  /\ lineup = emptyLineup
  /\ saving = FALSE
  /\ user = null
  /\ selectedPlayer = null
  /\ loadReqs = 0
  /\ saveReqs = {}
  /\ alert = NoAlert
  /\ request = NoRequest
  /\ rejected = NoError
  /\ logged = NoLog
  /\ nav = NoNav
  /\ op = ""

Next ==
  \/ \E position \in PositionKey, player \in Roster \cup {null} :
       setPlayerToPosition(position, player)
  \/ \E name \in Names, email \in Emails, password \in Passwords,
        u \in Users, failure \in SignUpFailures :
       handleSignUp(name, email, password, u, failure)
  \/ handleSignOut
  \/ \E response \in LoadResponses : loadResponse(response)
  \/ loadNetworkError
  \/ handleSave
  \/ \E id \in saveReqs, response \in SaveResponses : saveResponse(id, response)
  \/ \E id \in saveReqs, message \in NetworkErrors : saveNetworkError(id, message)
  \/ loadLineupFromContext
  \/ \E position \in RouteParams, player \in Roster : handleSelectPlayer(position, player)
  \/ closeProfile
  \/ pressSave
  \/ \E position \in RouteParams, filterPosition \in Filters, player \in Roster :
       pressPlayer(position, filterPosition, player)

Spec == Init /\ [][Next]_vars

\* The container without the save path: assignments, sign-up and sign-out,
\* and the loads they start.
NextLineup ==
  \/ \E position \in PositionKey, player \in Roster \cup {null} :
       setPlayerToPosition(position, player)
  \/ \E name \in Names, email \in Emails, password \in Passwords,
        u \in Users, failure \in SignUpFailures :
       handleSignUp(name, email, password, u, failure)
  \/ handleSignOut
  \/ \E response \in LoadResponses : loadResponse(response)
  \/ loadNetworkError

SpecLineup == Init /\ [][NextLineup]_vars

\* The save path on its own, from the state a sign-up leaves once its load
\* has found nothing saved: assignments, saves, and a sign-out.
InitSave ==
  /\ lineup = emptyLineup
  /\ saving = FALSE
  /\ user \in Users
  /\ selectedPlayer = null
  /\ loadReqs = 0
  /\ saveReqs = {}
  /\ alert = NoAlert
  /\ request = NoRequest
  /\ rejected = NoError
  /\ logged = NoLog
  /\ nav = NoNav
  /\ op = ""

NextSave ==
  \/ \E position \in PositionKey, player \in Roster \cup {null} :
       setPlayerToPosition(position, player)
  \/ handleSignOut
  \/ handleSave
  \/ \E id \in saveReqs, response \in SaveResponses : saveResponse(id, response)
  \/ \E id \in saveReqs, message \in NetworkErrors : saveNetworkError(id, message)

SpecSave == InitSave /\ [][NextSave]_vars

\* The program while nobody is signed in: every sign-up attempt fails, and the
\* container is driven by assignments, save requests and calls of loadLineup.
NextSignedOut ==
  \/ \E position \in PositionKey, player \in Roster \cup {null} :
       setPlayerToPosition(position, player)
  \/ \E name \in Names, email \in Emails, password \in Passwords,
        u \in Users, failure \in SignUpFailures \ {""} :
       handleSignUp(name, email, password, u, failure)
  \/ handleSave
  \/ loadLineupFromContext

SpecSignedOut == Init /\ [][NextSignedOut]_vars

\* The player list on its own: selections for a position and for the profile.
NextSelect ==
  \/ \E position \in RouteParams, player \in Roster : handleSelectPlayer(position, player)
  \/ closeProfile

SpecSelect == Init /\ [][NextSelect]_vars

\* The player list as the user drives it: presses on the players listed
\* under some filter, and the close button of the profile.
NextList ==
  \/ \E position \in RouteParams, filterPosition \in Filters, player \in Roster :
       pressPlayer(position, filterPosition, player)
  \/ closeProfile

SpecList == Init /\ [][NextList]_vars

\* Building a lineup through the player list only, and saving it: the lineup
\* starts empty and changes by nothing but selections.
NextBuild ==
  \/ \E position \in RouteParams, filterPosition \in Filters, player \in Roster :
       pressPlayer(position, filterPosition, player)
  \/ closeProfile
  \/ handleSave
  \/ \E id \in saveReqs, response \in SaveResponses : saveResponse(id, response)
  \/ \E id \in saveReqs, message \in NetworkErrors : saveNetworkError(id, message)

SpecBuild == InitSave /\ [][NextBuild]_vars

\* The save path with every save started by a press of the save button.
NextButton ==
  \/ \E position \in PositionKey, player \in Roster \cup {null} :
       setPlayerToPosition(position, player)
  \/ handleSignOut
  \/ pressSave
  \/ \E id \in saveReqs, response \in SaveResponses : saveResponse(id, response)
  \/ \E id \in saveReqs, message \in NetworkErrors : saveNetworkError(id, message)

SpecButton == InitSave /\ [][NextButton]_vars

(***************************************************************************)
(* Properties.                                                             *)
(***************************************************************************)
\* what a slot costs: the creditCost of its player, nothing when it is empty
slotCost(l, position) ==
  IF l[position] = null THEN 0 ELSE l[position].creditCost

\* the credit cost of the occupied slots, summed slot by slot
occupiedCost(l) ==
  slotCost(l, "setter") + slotCost(l, "outsideHitter")
  + slotCost(l, "oppositeHitter") + slotCost(l, "middleBlocker")
  + slotCost(l, "libero") + slotCost(l, "defensiveSpecialist")

allOccupied(l) == \A position \in PositionKey : l[position] # null

\* C1: after every assignment, of a player or of null, to any of the six
\* positions, creditsUsed is the summed cost of the occupied slots and
\* remaining is 100 - creditsUsed; the state the assignment leaves already
\* carries both, no state lies between the slot change and the recomputation.
C1_AssignRecomputes ==
  op = "setPlayerToPosition" =>
    /\ lineup.creditsUsed = occupiedCost(lineup)
    /\ lineup.remaining = 100 - lineup.creditsUsed

\* an assignment has cleared the setter of a lineup that costs 150
C1_Witness ==
  /\ op = "setPlayerToPosition"
  /\ lineup.setter = null
  /\ lineup.creditsUsed = 150
  /\ lineup.remaining = 0 - 50

\* C2: creditsUsed + remaining = 100 in every reachable state of the
\* container.
C2_BudgetIdentity == lineup.creditsUsed + lineup.remaining = 100
\* a save request went out in this step
saveSent ==
  /\ request'.method = "POST"
  /\ request'.path = "/api/lineup/save"
  /\ saveReqs' # saveReqs

\* C3 as stated: a save request from the team-builder screen results in a
\* network call exactly when all six slots are occupied and remaining >= 0.
C3_SaveIffGate ==
  [][ op' = "handleSave" =>
        (saveSent <=> (allOccupied(lineup) /\ lineup.remaining >= 0)) ]_vars

\* C3 as amended: a save request from the team-builder screen results in a
\* network call exactly when all six slots are occupied, remaining >= 0 and
\* a user is signed in.
C3_SaveIffGateAndUser ==
  [][ op' = "handleSave" =>
        (saveSent <=>
           (allOccupied(lineup) /\ lineup.remaining >= 0 /\ user # null)) ]_vars

\* handleSave has sent the save request of a full lineup within the budget
C3_Witness ==
  /\ op = "handleSave"
  /\ request.path = "/api/lineup/save"
  /\ saving
  /\ allOccupied(lineup)
  /\ lineup.remaining >= 0

\* C4: a save request on a lineup with an empty slot, whatever its budget, or
\* with remaining < 0, whether complete or not, issues no network call and
\* leaves the lineup and the saving flag as they were.
C4_RejectedSaveChangesNothing ==
  [][ (op' = "handleSave" /\ (~allOccupied(lineup) \/ lineup.remaining < 0)) =>
        /\ request' = NoRequest
        /\ saveReqs' = saveReqs
        /\ lineup' = lineup
        /\ saving' = saving ]_vars

\* handleSave has rejected a complete, over-budget lineup while an earlier
\* save was still in flight
C4_Witness ==
  /\ op = "handleSave"
  /\ allOccupied(lineup)
  /\ lineup.remaining < 0
  /\ saving
  /\ saveReqs # {}
  /\ request = NoRequest

\* C5: when the save gate fails a rejection is shown, and it names a condition
\* that failed: the incomplete-lineup alert only with an empty slot, the
\* budget alert only with remaining < 0, giving |remaining| as the overage.
C5_RejectionNamesFailedCondition ==
  [][ (op' = "handleSave" /\ ~(allOccupied(lineup) /\ lineup.remaining >= 0)) =>
        /\ alert'.title \in {"Incomplete Lineup", "Budget Exceeded"}
        /\ alert'.title = "Incomplete Lineup" => ~allOccupied(lineup)
        /\ alert'.title = "Budget Exceeded" =>
             /\ lineup.remaining < 0
             /\ alert'.credits = 0 - lineup.remaining ]_vars

\* handleSave has shown the incomplete-lineup alert for a lineup with an empty
\* slot and credits to spare
C5_Witness ==
  /\ op = "handleSave"
  /\ alert.title = "Incomplete Lineup"
  /\ lineup.libero = null
  /\ lineup.remaining = 10

\* C6: assigning null to an occupied slot lowers creditsUsed by the creditCost
\* of the player that was in it and raises remaining by the same amount.
C6_ClearRefundsCost ==
  [][ op' = "setPlayerToPosition" =>
        \A position \in PositionKey :
          (lineup[position] # null /\ setPlayerToPosition(position, null)) =>
            /\ lineup'.creditsUsed = lineup.creditsUsed - lineup[position].creditCost
            /\ lineup'.remaining = lineup.remaining + lineup[position].creditCost ]_vars

\* the credit costs of the six slots, in the order of the position keys
costsOf(l) == [i \in 1..Len(positions) |-> slotCost(l, positions[i])]

exampleCosts == <<20, 20, 20, 20, 10, 10>>

exampleCostsReplaced == { <<20, 20, 20, 20, 30, 10>>, <<20, 20, 20, 20, 10, 30>> }

\* C7: from the empty lineup, assignments that fill the six slots with costs
\* 20,20,20,20,10,10 give creditsUsed 100 and remaining 0, and the gate lets
\* the save through; replacing a 10-cost player by a 30-cost one then gives
\* creditsUsed 120 and remaining -20, and the save is rejected with the
\* over-budget-by-20 alert and no request.
C7_Example ==
  [][ /\ (op' = "setPlayerToPosition" /\ costsOf(lineup') = exampleCosts) =>
           /\ lineup'.creditsUsed = 100
           /\ lineup'.remaining = 0
      /\ (op' = "handleSave" /\ costsOf(lineup) = exampleCosts) =>
           /\ alert'.title \notin {"Incomplete Lineup", "Budget Exceeded"}
           /\ user # null => saveSent
      /\ (/\ op' = "setPlayerToPosition"
          /\ costsOf(lineup) = exampleCosts
          /\ costsOf(lineup') \in exampleCostsReplaced) =>
           /\ lineup'.creditsUsed = 120
           /\ lineup'.remaining = 0 - 20
      /\ (op' = "handleSave" /\ costsOf(lineup) \in exampleCostsReplaced) =>
           /\ alert'.title = "Budget Exceeded"
           /\ alert'.credits = 20
           /\ request' = NoRequest
           /\ saveReqs' = saveReqs ]_vars

\* the save of the example lineup with one 10 replaced by a 30 has been
\* rejected as over budget by 20
C7_Witness ==
  /\ op = "handleSave"
  /\ costsOf(lineup) \in exampleCostsReplaced
  /\ lineup.creditsUsed = 120
  /\ alert.title = "Budget Exceeded"
  /\ alert.credits = 20

\* C8: after a successful load the lineup is what the server returned: its six
\* slots, its creditsUsed and its remaining.
C8_LoadReplacesWithServerState ==
  [][ op' = "loadLineup:ok" =>
        \A d \in ServerLineups :
          loadResponse([ok |-> TRUE, data |-> d]) => lineup' = d ]_vars

\* the response for a user who has saved nothing
emptySaved ==
  [ setter |-> null, outsideHitter |-> null, oppositeHitter |-> null,
    middleBlocker |-> null, libero |-> null, defensiveSpecialist |-> null,
    creditsUsed |-> 0, remaining |-> 100 ]

\* C9: a load that finds no saved lineup leaves all six slots empty,
\* creditsUsed 0 and remaining 100, whatever the lineup held before.
C9_LoadEmpty ==
  [][ (op' = "loadLineup:ok" /\ loadResponse([ok |-> TRUE, data |-> emptySaved])) =>
        /\ \A position \in PositionKey : lineup'[position] = null
        /\ lineup'.creditsUsed = 0
        /\ lineup'.remaining = 100 ]_vars

\* a successful load has left the lineup empty
C9_Witness ==
  /\ op = "loadLineup:ok"
  /\ \A position \in PositionKey : lineup[position] = null
  /\ lineup.creditsUsed = 0
  /\ lineup.remaining = 100

\* C10: a load that fails, by a response that is not ok or by a network
\* error, leaves the six slots, creditsUsed and remaining as they were and
\* rejects with no error.
C10_FailedLoadKeepsLineup ==
  [][ op' \in {"loadLineup:notOk", "loadLineup:error"} =>
        /\ lineup' = lineup
        /\ rejected' = NoError ]_vars

\* a load has failed over a lineup that already holds a setter
C10_Witness ==
  /\ op \in {"loadLineup:notOk", "loadLineup:error"}
  /\ lineup.setter # null
  /\ rejected = NoError

\* C11: while no user is signed in, a call of load and a request to save are
\* no-ops: neither issues a network request, neither changes the lineup, and
\* the save does not set the saving flag.
C11_NoUserNoOps ==
  [][ (op' \in {"handleSave", "loadLineup"} /\ user = null) =>
        /\ request' = NoRequest
        /\ loadReqs' = loadReqs
        /\ saveReqs' = saveReqs
        /\ lineup' = lineup
        /\ saving' = saving ]_vars

\* with nobody signed in, a save of a lineup that passes the gate has been
\* requested: nothing was sent and the saving flag is still false
C11_Witness ==
  /\ op = "handleSave"
  /\ user = null
  /\ allOccupied(lineup)
  /\ lineup.remaining >= 0
  /\ request = NoRequest
  /\ saveReqs = {}
  /\ ~saving

\* C12: the saving flag is true whenever at least one save request has been
\* sent and has not yet completed, for any interleaving of save invocations
\* and responses.
C12_SavingWhileInFlight == saveReqs # {} => saving

\* a save answered by a response that is not ok fails with the detail of the
\* response, or with the generic message when it has none, and the screen
\* shows that message in its error alert
failureShowsDetail ==
  op' = "saveLineup:notOk" =>
    \A id \in saveReqs, response \in SaveResponses :
      (~response.ok /\ saveResponse(id, response)) =>
        LET message == IF response.detail # "" THEN response.detail
                       ELSE "Failed to save lineup"
        IN /\ rejected'.message = message
           /\ alert'.title = "Error"
           /\ alert'.message = message

\* the success alert appears only in the step that receives an ok response
successOnlyAfterOk == alert'.title = "Success" => op' = "saveLineup:ok"

\* C13: a save response that is not ok makes the save fail with the server's
\* detail message verbatim, or with 'Failed to save lineup' when there is
\* none, and the screen shows that message in an error notice; the success
\* notice is shown only after a success response.
C13_SaveOutcomeNotices == [][ failureShowsDetail /\ successOnlyAfterOk ]_vars

\* the first half of C13 on its own
C13_FailureHalf == [][ failureShowsDetail ]_vars

\* the total the lineup would cost with the candidate in the slot
hypotheticalTotal(l, position, player) ==
  l.creditsUsed - slotCost(l, position) + player.creditCost

\* C14: on the player list opened for a position, selecting a candidate whose
\* hypothetical total, creditsUsed - cost(current occupant) + cost(candidate),
\* exceeds 100 never calls assign: the lineup stays as it was and the screen
\* does not navigate back.
C14_OverBudgetPreviewBlocks ==
  [][ op' = "handleSelectPlayer" =>
        \A position \in PositionKey, player \in Roster :
          (/\ hypotheticalTotal(lineup, position, player) > 100
           /\ handleSelectPlayer(position, player)) =>
            /\ lineup' = lineup
            /\ nav' # Back ]_vars

\* a selection has been turned down on a lineup that costs 80: the lineup
\* still costs 80 and no navigation took place
C14_Witness ==
  /\ op = "handleSelectPlayer"
  /\ lineup.creditsUsed = 80
  /\ lineup.setter = null
  /\ rejected # NoError
  /\ nav = NoNav

\* C15: when the preview turns a selection down, the user is shown a
\* budget-exceeded message that gives the player's cost and the credits
\* available, and the handler completes normally, without an error.
C15_PreviewRejectionShown ==
  [][ op' = "handleSelectPlayer" =>
        \A position \in PositionKey, player \in Roster :
          (/\ hypotheticalTotal(lineup, position, player) > 100
           /\ handleSelectPlayer(position, player)) =>
            /\ alert'.title = "Budget Exceeded"
            /\ alert'.playerCost = player.creditCost
            /\ alert'.availableCredits =
                 100 - (lineup.creditsUsed - slotCost(lineup, position))
            /\ rejected' = NoError ]_vars

\* C16: the lineup is discarded on sign-out: the state a sign-out leaves holds
\* the empty lineup, six empty slots, creditsUsed 0 and remaining 100, so the
\* user who signs in next cannot see the lineup of the one before.
C16_SignOutDiscardsLineup == op = "handleSignOut" => lineup = emptyLineup

\* a load request went out in this step
loadSent ==
  /\ request'.method = "GET"
  /\ request'.path = "/api/lineup"
  /\ loadReqs' = loadReqs + 1

\* C17: load is called once per sign-in: every step in which the signed-in
\* user changes from absent to present issues exactly one load request, and
\* no step that leaves nobody signed in issues one.
C17_LoadOncePerSignIn ==
  [][ /\ (user = null /\ user' # null) => loadSent
      /\ user' = null =>
           /\ request'.path # "/api/lineup"
           /\ loadReqs' <= loadReqs ]_vars

\* a sign-up has signed the user in over a lineup assembled beforehand, and
\* its one load request is in flight
C17_Witness ==
  /\ op = "handleSignUp"
  /\ user # null
  /\ request.method = "GET"
  /\ request.path = "/api/lineup"
  /\ loadReqs = 1
  /\ lineup.creditsUsed = 60

\* the step put the player, or null, into the slot and kept the other five
replacesOnly(position, player) ==
  /\ lineup'[position] = player
  /\ \A other \in PositionKey \ {position} : lineup'[other] = lineup[other]

\* C18: assign validates no budget and always succeeds: in every state, for
\* every position key and every player or null, the assignment can be made,
\* and it puts that occupant into the slot and leaves the other five slots
\* as they were, also when the result has remaining < 0.
C18_AssignAlwaysSucceeds ==
  \A position \in PositionKey, player \in Roster \cup {null} :
    /\ ENABLED setPlayerToPosition(position, player)
    /\ ~ENABLED (/\ setPlayerToPosition(position, player)
                 /\ ~replacesOnly(position, player))

\* assignments alone have filled the six slots with 30-cost players
C18_Witness ==
  /\ op = "setPlayerToPosition"
  /\ user = null
  /\ \A position \in PositionKey : slotCost(lineup, position) = 30
  /\ lineup.creditsUsed = 180
  /\ lineup.remaining = 0 - 80

\* the id of the player in the slot, "null" for an empty slot
occupantId(l, position) ==
  IF l[position] = null THEN "null" ELSE l[position].id

\* C19: the body of a save request carries, for each of the six position
\* keys, the id of the player in that slot of the lineup as it was when the
\* save was invoked, and null for an empty slot; in a request sent after the
\* gate passed no field is null.  (The step that sends the request leaves the
\* lineup as it was, so the state it reaches still shows the lineup the body
\* was taken from.)
C19_SaveBodyCarriesIds ==
  /\ \A position \in PositionKey :
       saveBody(lineup)[position] = occupantId(lineup, position)
  /\ (op = "handleSave" /\ request.method = "POST") =>
       \A position \in PositionKey :
         /\ request.body[position] = occupantId(lineup, position)
         /\ request.body[position] # "null"

\* a save request has gone out with the ids of a lineup that holds all three
\* players of the roster
C19_Witness ==
  /\ op = "handleSave"
  /\ request.method = "POST"
  /\ request.body.setter = "p30"
  /\ request.body.libero = "p10"
  /\ request.body.defensiveSpecialist = "p20"
  /\ lineup.defensiveSpecialist.id = "p20"

\* C20: saveLineup enforces no mutual exclusion: a save invoked for a lineup
\* that passes the gate sends its request whether or not the saving flag is
\* set and earlier requests are in flight, so two requests can be in flight
\* at once, and whichever of the requests in flight can be the next to be
\* answered.
C20_NoMutualExclusion ==
  /\ (user # null /\ canSave(lineup) /\ Cardinality(saveReqs) < MaxSaves) =>
       /\ ENABLED (handleSave /\ saveSent)
       /\ ~ENABLED (handleSave /\ ~saveSent)
  /\ \A id \in saveReqs, response \in SaveResponses :
       ENABLED saveResponse(id, response)

\* a second save has been sent while the first was still in flight
C20_Witness ==
  /\ op = "handleSave"
  /\ saving
  /\ Cardinality(saveReqs) = 2
  /\ request.path = "/api/lineup/save"

\* C21: when every save is started by the save button, which is disabled
\* while saving is true or the gate fails, at most one save request is in
\* flight at any time, and saving is true for as long as it is.
C21_ButtonOneInFlight ==
  /\ Cardinality(saveReqs) <= 1
  /\ saveReqs # {} => saving

\* a save started by the button is in flight for a lineup that still passes
\* the gate, and the button is disabled
C21_Witness ==
  /\ Cardinality(saveReqs) = 1
  /\ saving
  /\ user # null
  /\ canSave(lineup)
  /\ saveButtonDisabled

\* the steps in which a save completes
saveCompletions == {"saveLineup:ok", "saveLineup:notOk", "saveLineup:error"}

\* C22: every save whose request completes, by a response that is ok, by one
\* that is not, or by a network error, ends with saving false; and a save
\* whose request never completes leaves saving true for ever, that is, saving
\* is true in every state in which a request sent is still without its
\* completion.
C22_SavingUntilCompletion ==
  /\ op \in saveCompletions => ~saving
  /\ \A id \in saveReqs : saving

\* the first half of C22 on its own
C22_CompletionHalf == op \in saveCompletions => ~saving

\* no timeout and no cancellation: saving goes from true to false in no step
\* but the completion of a save
C22_NoTimeout == [][ (saving /\ ~saving') => op' \in saveCompletions ]_vars

\* C23: nothing prevents one player from occupying two positions: whenever a
\* player is in the lineup and the preview lets them into a slot, the list
\* opened for that slot accepts the press and puts them there, whatever other
\* slot they occupy; and creditsUsed counts their creditCost once for every
\* slot they are in.
C23_SamePlayerTwice ==
  /\ \A position \in PositionKey, player \in Roster :
       (/\ isSelected(lineup, player)
        /\ hypotheticalTotal(lineup, position, player) <= 100) =>
         ENABLED (\E filterPosition \in Filters :
                    /\ pressPlayer(position, filterPosition, player)
                    /\ lineup'[position] = player)
  /\ lineup.creditsUsed = occupiedCost(lineup)

\* the 30-cost player has been selected for the libero slot while in the
\* setter slot already, and is counted twice
C23_Witness ==
  /\ op = "handleSelectPlayer"
  /\ nav = Back
  /\ lineup.setter.id = "p30"
  /\ lineup.libero.id = "p30"
  /\ lineup.creditsUsed = 60

\* an assignment was the last step and a load request was in flight over it
assignedDuringLoad == op = "setPlayerToPosition" /\ loadReqs > 0

\* the six slots after the step are the six slots of d
slotsReplacedBy(d) == \A position \in PositionKey : lineup'[position] = d[position]

\* C24: an assignment made between the sending of a load request and the
\* arrival of its ok response is not preserved: the response overwrites the
\* six slots and both derived fields with the server's values, so the player
\* assigned is in the lineup afterwards only where the server's copy has them.
C24_LoadOverwritesAssignment ==
  [][ (op' = "loadLineup:ok" /\ assignedDuringLoad) =>
        \A d \in ServerLineups :
          loadResponse([ok |-> TRUE, data |-> d]) =>
            /\ slotsReplacedBy(d)
            /\ lineup'.creditsUsed = d.creditsUsed
            /\ lineup'.remaining = d.remaining ]_vars

\* C24 without the remaining field
C24_SlotsAndCreditsUsed ==
  [][ (op' = "loadLineup:ok" /\ assignedDuringLoad) =>
        \A d \in ServerLineups :
          loadResponse([ok |-> TRUE, data |-> d]) =>
            /\ slotsReplacedBy(d)
            /\ lineup'.creditsUsed = d.creditsUsed ]_vars

\* C25: when the lineup starts empty and changes only by selections that pass
\* the preview of the player list, creditsUsed <= 100 and remaining >= 0 in
\* every reachable state, and a save is rejected only for an incomplete
\* lineup, never for the budget.
C25_PreviewKeepsBudget ==
  /\ lineup.creditsUsed <= 100
  /\ lineup.remaining >= 0
  /\ (op = "handleSave" /\ alert # NoAlert /\ alert # SuccessAlert) =>
       /\ alert = IncompleteAlert
       /\ ~allOccupied(lineup)

\* the save of a lineup with five slots filled for all 100 credits has been
\* rejected as incomplete
C25_Witness ==
  /\ op = "handleSave"
  /\ alert = IncompleteAlert
  /\ lineup.creditsUsed = 100
  /\ lineup.remaining = 0
  /\ lineup.libero = null

\* C26: the preview agrees with assign: in every reachable state of the
\* lineup, one produced by a load included, for every position and every
\* candidate, the total the preview computes is the creditsUsed the
\* assignment would store, so the preview accepts exactly the selections that
\* leave remaining >= 0.
C26_PreviewAgreesWithAssign ==
  \A position \in PositionKey, player \in Roster :
    LET assigned == assignedLineup(lineup, position, player)
    IN /\ newTotal(lineup, position, player) = assigned.creditsUsed
       /\ ~exceedsBudget(newTotal(lineup, position, player))
            <=> assigned.remaining >= 0

\* a load has produced a full lineup that costs 100, and the preview lets a
\* 10-cost candidate replace the 30-cost libero
C26_Witness ==
  /\ op = "loadLineup:ok"
  /\ allOccupied(lineup)
  /\ lineup.creditsUsed = 100
  /\ slotCost(lineup, "libero") = 30
  /\ ~exceedsBudget(newTotal(lineup, "libero", [id |-> "p10", creditCost |-> 10]))

\* C27: a save attempted on a lineup that is both incomplete and over budget
\* is rejected with the over-budget alert only, and the incomplete-lineup
\* alert is shown only when remaining >= 0.  (handleSave leaves the lineup as
\* it was, so the state it reaches shows the lineup it judged.)
C27_OverBudgetTakesPrecedence ==
  op = "handleSave" =>
    /\ (~allOccupied(lineup) /\ lineup.remaining < 0) =>
         alert = BudgetExceededAlert(0 - lineup.remaining)
    /\ alert.title = "Incomplete Lineup" => lineup.remaining >= 0

\* the save of a lineup with an empty setter slot and five 30-cost players has
\* been rejected as over budget by 50
C27_Witness ==
  /\ op = "handleSave"
  /\ lineup.setter = null
  /\ lineup.remaining = 0 - 50
  /\ alert.title = "Budget Exceeded"
  /\ alert.credits = 50
  /\ request = NoRequest
====
